---- MODULE Spec2Model ----
(***************************************************************************)
(* UTracker (src/index.ts): a Discord bot that polls the Steam event feed  *)
(* of every configured app, compares the latest event's gid with the       *)
(* last-seen gid kept in Redis or in storage.json, sends a notification    *)
(* for a new gid and then stores it.                                       *)
(*                                                                         *)
(* A poll cycle (one run of checkUpdates) is a process with a program      *)
(* counter; every await of the source is a step boundary.  Cycles started  *)
(* by the interval timer may overlap.                                      *)
(***************************************************************************)
EXTENDS Naturals, Sequences, FiniteSets, TLC

\* ---------------------------------------------------------------- bounds
\* Poll cycles started in one behaviour (the startup cycle included).
MaxCycles == 2
\* Times the feed publishes a newer latest event.
MaxPublish == 1

\* ---------------------------------------------------------------- values
\* JavaScript null / undefined, kept apart from every string (also from "").
NULL == "<null>"
UNDEFINED == "<undefined>"
\* Never written by a completed setLastGid (history only).
NONE == "<none>"

\* Tracked app ids that occur in STEAM_APP_IDS.
Keys == {"a", "b"}
\* Event gids the feed can carry: gid is typed `string`, "" included.
Gids == {"", "X", "Y"}
\* Cycles that can be in flight at the same time.
Slots == {1, 2}

\* The configured lists the model runs under (trimmed, non-empty entries,
\* no de-duplication).
AppIdLists == {<<"a", "b">>, <<"a", "a">>}

\* An object parsed from storage.json: every key maps to a string or is
\* not a property (UNDEFINED).
EmptyData == [k \in Keys |-> UNDEFINED]

VARIABLES
    TOKEN,        \* process.env.DISCORD_TOKEN: "" (absent/empty) or "tok"
    CHANNEL_ID,   \* process.env.DISCORD_CHANNEL_ID: "" or "chan"
    APP_IDS,      \* parsed STEAM_APP_IDS
    redisClient,  \* TRUE iff REDIS_URL is set (Redis backend selected)
    proc,         \* "init" | "exited" | "login" | "ready"
    exitCode,     \* exit status once proc = "exited"
    redis,        \* Redis content: key -> gid or NULL
    file,         \* storage.json: [exists, parsable, data]
    feed,         \* the feed's latest event gid per app
    published,    \* feed changes so far
    cyc,          \* slot -> the cycle running in it
    started,      \* cycles started so far
    lastSet,      \* history: value of the last completed setLastGid per key
    how,          \* history: how the emit before that setLastGid returned
    delivered,    \* history: <<app, gid>> whose channel.send resolved
    unsaved,      \* history: per key, the last emitted gid whose setLastGid raised
    fetched,      \* history: TRUE once any feed fetch was issued
    last,         \* history: how the step taken last ended
    event,        \* the SteamEvent sendDiscordNotification builds an embed for
    imageUrl,     \* the image resolved for it (lines 154-174, 186-188)
    text,         \* the argument of a formatSteamText call
    formatted     \* what that call returned

cfgVars == <<TOKEN, CHANNEL_ID, APP_IDS, redisClient>>
storeVars == <<redis, file>>
envVars == <<feed, published>>
histVars == <<lastSet, how, delivered, unsaved>>
embedVars == <<event, imageUrl, text, formatted>>
pollVars == <<TOKEN, CHANNEL_ID, APP_IDS, redisClient, proc, exitCode, redis, file,
              feed, published, cyc, started, lastSet, how, delivered, unsaved,
              fetched, last>>
vars == <<TOKEN, CHANNEL_ID, APP_IDS, redisClient, proc, exitCode, redis, file,
          feed, published, cyc, started, lastSet, how, delivered, unsaved,
          fetched, last, event, imageUrl, text, formatted>>

\* ------------------------------------------------------------ state store
\* Mutant of OrNull: the value is returned as it is, without `|| null`.
OrNull_Identity(v) == v

\* `x || null` of line 59: every falsy value (undefined, "") becomes null.
OrNull(v) == IF v = UNDEFINED \/ v = "" THEN NULL ELSE v

\* The local-file branch of getLastGid (lines 56-64).
FileGet(f, appId) ==
    IF f.exists
      THEN IF f.parsable THEN OrNull(f.data[appId]) ELSE NULL
      ELSE NULL

\* What getLastGid(appId) returns when it returns (lines 52-66).
getLastGid(appId) ==
    IF redisClient THEN redis[appId] ELSE FileGet(file, appId)

\* Mutant of FileSet: the document is rewritten with the one key only.
FileSet_Overwrites(f, appId, gid) ==
    [exists |-> TRUE, parsable |-> TRUE,
     data |-> [EmptyData EXCEPT ![appId] = gid]]

\* The local-file branch of setLastGid (lines 72-79): parse the document
\* (an empty object when missing or unparsable), set one key, rewrite it.
FileSet(f, appId, gid) ==
    LET data == IF f.exists /\ f.parsable THEN f.data ELSE EmptyData
    IN  [exists |-> TRUE, parsable |-> TRUE,
         data |-> [data EXCEPT ![appId] = gid]]

\* The raw stored value of a key, NULL when there is none.
Stored(appId) ==
    IF redisClient THEN redis[appId]
    ELSE IF file.exists /\ file.parsable /\ file.data[appId] # UNDEFINED
           THEN file.data[appId] ELSE NULL

\* ------------------------------------------------------------ poll cycle
\* A cycle: where it is (pc), the index of the appId it is at, event.gid
\* and lastGid of the current pass, how sendDiscordNotification returned in
\* this pass ("none" before that), the indexes at which this cycle's catch
\* ran, whether its last step ended in the catch, and the keys this cycle's
\* completed setLastGid calls have written.
Idle ==
    [pc |-> "idle", idx |-> 0, gid |-> NULL, lastGid |-> NULL,
     emit |-> "none", failed |-> {}, caught |-> FALSE, wrote |-> {}]

AppOf(c) == APP_IDS[cyc[c].idx]

\* The for loop of checkUpdates advancing to the next appId (line 127);
\* the cycle ends after the last one.
NextItem(r) ==
    IF r.idx < Len(APP_IDS)
      THEN [r EXCEPT !.pc = "fetch", !.idx = r.idx + 1, !.gid = NULL,
                     !.lastGid = NULL, !.emit = "none", !.caught = FALSE]
      ELSE Idle

\* Mutant of Catch: the error leaves the loop and ends the cycle.
Catch_Aborts(r) == [Idle EXCEPT !.caught = TRUE]

\* The catch of lines 142-144: log, then go on with the next appId.
Catch(r) ==
    [NextItem([r EXCEPT !.failed = r.failed \cup {r.idx}]) EXCEPT !.caught = TRUE]

\* checkUpdates() called (lines 126-131): runs up to the first await, the
\* fetch of the first appId; an empty list ends the cycle at once.
StartCycle ==
    IF Len(APP_IDS) = 0 THEN Idle
    ELSE [Idle EXCEPT !.pc = "fetch", !.idx = 1]

\* What the step taken last met: a feed response with success # 1 or
\* without any event (nodata), a failed call of the storage backend
\* (storeErr).
NoLast == [nodata |-> FALSE, storeErr |-> FALSE]

FreeSlots == {c \in Slots : cyc[c].pc = "idle"}
LowestFree == CHOOSE c \in FreeSlots : \A d \in FreeSlots : c <= d

\* ---------------------------------------------------------------- Init
\* No embed is being built: no event at hand, nothing resolved or formatted.
NoImage == [done |-> FALSE, raised |-> FALSE, clanId |-> NULL, imageFile |-> NULL]
NoList == [kind |-> "missing", items |-> <<>>]
NoEvent ==
    [hasBody |-> TRUE, clanid |-> UNDEFINED,
     jsondata |-> [kind |-> "undefined", title |-> NoList, capsule |-> NoList]]
NoText == [done |-> FALSE, value |-> <<>>]

EmbedIdle ==
    /\ event = NoEvent
    /\ imageUrl = NoImage
    /\ text = <<>>
    /\ formatted = NoText

\* The process before its first step, under one of the configured lists.
PollStart(lists) ==
    /\ TOKEN \in {"", "tok"}
    /\ CHANNEL_ID \in {"", "chan"}
    /\ APP_IDS \in lists
    /\ redisClient \in BOOLEAN
    /\ proc = "init"
    /\ exitCode = 0
    /\ redis = [k \in Keys |-> NULL]
    /\ file \in {[exists |-> FALSE, parsable |-> FALSE, data |-> EmptyData],
                 [exists |-> TRUE, parsable |-> FALSE, data |-> EmptyData],
                 [exists |-> TRUE, parsable |-> TRUE, data |-> EmptyData]}
    /\ (redisClient => ~file.exists)
    /\ feed = [k \in Keys |-> "X"]
    /\ published = 0
    /\ cyc = [c \in Slots |-> Idle]
    /\ started = 0
    /\ lastSet = [k \in Keys |-> NONE]
    /\ how = [k \in Keys |-> "none"]
    /\ delivered = {}
    /\ unsaved = [k \in Keys |-> NULL]
    /\ fetched = FALSE
    /\ last = NoLast

PollInit == PollStart(AppIdLists)

Init == PollInit /\ EmbedIdle

\* ------------------------------------------------------------- startup
\* Mutant of Startup: client.login is called whatever the token.
Startup_NoTokenCheck ==
    /\ proc = "init"
    /\ proc' = "login"
    /\ exitCode' = exitCode
    /\ last' = NoLast
    /\ UNCHANGED <<cfgVars, storeVars, envVars, cyc, started, histVars, fetched,
                   embedVars>>

\* Lines 199-203: a missing (or empty) token exits with status 1 before
\* client.login is called.
Startup ==
    /\ proc = "init"
    /\ IF TOKEN = ""
         THEN proc' = "exited" /\ exitCode' = 1
         ELSE proc' = "login" /\ exitCode' = exitCode
    /\ last' = NoLast
    /\ UNCHANGED <<cfgVars, storeVars, envVars, cyc, started, histVars, fetched,
                   embedVars>>

\* Lines 193-197: the ClientReady handler runs checkUpdates() once and
\* arms the interval timer.
Ready ==
    /\ proc = "login"
    /\ proc' = "ready"
    /\ cyc' = [cyc EXCEPT ![1] = StartCycle]
    /\ started' = started + 1
    /\ fetched' = (fetched \/ Len(APP_IDS) > 0)
    /\ last' = NoLast
    /\ UNCHANGED <<cfgVars, exitCode, storeVars, envVars, histVars, embedVars>>

\* Mutant of Tick: an interval firing is skipped while a cycle is running.
Tick_WaitsForIdle ==
    /\ proc = "ready"
    /\ started < MaxCycles
    /\ FreeSlots = Slots
    /\ cyc' = [cyc EXCEPT ![LowestFree] = StartCycle]
    /\ started' = started + 1
    /\ fetched' = (fetched \/ Len(APP_IDS) > 0)
    /\ last' = NoLast
    /\ UNCHANGED <<cfgVars, proc, exitCode, storeVars, envVars, histVars, embedVars>>

\* Line 196: an interval firing calls checkUpdates() again, whether or not
\* an earlier cycle is still running.
Tick ==
    /\ proc = "ready"
    /\ started < MaxCycles
    /\ FreeSlots # {}
    /\ cyc' = [cyc EXCEPT ![LowestFree] = StartCycle]
    /\ started' = started + 1
    /\ fetched' = (fetched \/ Len(APP_IDS) > 0)
    /\ last' = NoLast
    /\ UNCHANGED <<cfgVars, proc, exitCode, storeVars, envVars, histVars, embedVars>>

\* ---------------------------------------------------------- feed client
\* What `await fetch(url)` and `await response.json()` can yield: a network
\* error, a body that is not JSON, or a parsed body with a success flag and
\* an events property that is missing, an empty array, or holds the latest
\* event.
Responses ==
    [kind : {"neterr", "badjson"}, success : {0}, events : {"missing"}]
      \cup [kind : {"data"}, success : {1, 2}, events : {"missing", "empty", "one"}]

\* A parsed response with success # 1 or without any event.
NoNewData(resp) ==
    resp.kind = "data" /\ (resp.success # 1 \/ resp.events # "one")

\* Lines 129-135 for the appId the cycle is at: fetch, parse, take
\* data.events[0] (a TypeError when events is missing), then test
\* `data.success === 1 && event` and call getLastGid.
FetchStep(r, resp, latest) ==
    IF resp.kind # "data" \/ resp.events = "missing"
      THEN Catch(r)
      ELSE IF resp.success = 1 /\ resp.events = "one"
             THEN [r EXCEPT !.pc = "get", !.gid = latest, !.caught = FALSE]
             ELSE NextItem(r)

Fetch(c) ==
    /\ cyc[c].pc = "fetch"
    /\ \E resp \in Responses :
         /\ cyc' = [cyc EXCEPT ![c] = FetchStep(cyc[c], resp, feed[AppOf(c)])]
         /\ last' = [NoLast EXCEPT !.nodata = NoNewData(resp)]
    /\ UNCHANGED <<cfgVars, proc, exitCode, storeVars, envVars, started,
                   histVars, fetched, embedVars>>

\* The feed publishes a newer latest event for a tracked app.
Publish ==
    /\ published < MaxPublish
    /\ \E k \in {APP_IDS[i] : i \in DOMAIN APP_IDS} : \E g \in Gids \ {feed[k]} :
         feed' = [feed EXCEPT ![k] = g]
    /\ published' = published + 1
    /\ last' = NoLast
    /\ UNCHANGED <<cfgVars, proc, exitCode, storeVars, cyc, started, histVars,
                   fetched, embedVars>>

\* -------------------------------------------------------- change detector
\* sendDiscordNotification called (lines 148-151): it returns at once when
\* CHANNEL_ID is not set, else it awaits client.channels.fetch.
EmitCall(r) ==
    IF CHANNEL_ID = ""
      THEN [r EXCEPT !.pc = "set", !.emit = "noop"]
      ELSE [r EXCEPT !.pc = "emit"]

\* Mutant of Compare: the notification of a new gid is started and the
\* loop goes on to the next appId without awaiting it.
Compare_NotAwaited(r, lastGid) == NextItem(r)

\* Mutant of Compare: a gid whose notification went out before is not
\* notified again, although it was never stored.
Compare_SkipsUnsaved(r, lastGid) ==
    IF r.gid # lastGid /\ unsaved[APP_IDS[r.idx]] # r.gid
      THEN EmitCall([r EXCEPT !.lastGid = lastGid])
      ELSE NextItem(r)

\* Lines 135-138 once getLastGid has returned lastGid: a gid that differs
\* from it (null counts as different) is notified, an equal one ends the
\* pass.
Compare(r, lastGid) ==
    IF r.gid # lastGid
      THEN EmitCall([r EXCEPT !.lastGid = lastGid])
      ELSE NextItem(r)

\* Mutant of GetFailed: a rejected read counts as absent.
GetFailed_Absent(r) == Compare(r, NULL)

\* `await getLastGid(appId)` rejected (line 135): nothing in getLastGid
\* catches a Redis error, so the await raises into the catch of line 142.
GetFailed(r) == Catch(r)

\* `await getLastGid(appId)` (line 135).  A Redis command can be rejected;
\* the file branch catches its own errors.
Get(c) ==
    /\ cyc[c].pc = "get"
    /\ \E ok \in (IF redisClient THEN BOOLEAN ELSE {TRUE}) :
         LET lastGid == getLastGid(AppOf(c))
         IN  /\ cyc' = [cyc EXCEPT ![c] = IF ok THEN Compare(cyc[c], lastGid)
                                                ELSE GetFailed(cyc[c])]
             /\ last' = [NoLast EXCEPT !.storeErr = ~ok]
    /\ UNCHANGED <<cfgVars, proc, exitCode, storeVars, envVars, started,
                   histVars, fetched, embedVars>>

\* ---------------------------------------------------- notification emitter
\* How a call of sendDiscordNotification with a channel id can end (lines
\* 151-190): client.channels.fetch rejects, or resolves to nothing (the
\* emitter returns silently), or resolves to the channel, whereupon the
\* embed is built and channel.send rejects or resolves.
EmitOutcomes == {"nochannel", "null", "sendfail", "sent"}

\* Mutant of EmitStep: an error of the emitter is swallowed and the pass
\* goes on to setLastGid.
EmitStep_SwallowsError(r, out) ==
    CASE out \in {"nochannel", "sendfail"} -> [r EXCEPT !.pc = "set"]
      [] out = "null" -> [r EXCEPT !.pc = "set", !.emit = "noop"]
      [] out = "sent" -> [r EXCEPT !.pc = "set", !.emit = "sent"]

\* Mutant of EmitStep: a rejected channel.send is taken for a sent message.
EmitStep_SendFailIgnored(r, out) ==
    CASE out = "nochannel" -> Catch(r)
      [] out = "null" -> [r EXCEPT !.pc = "set", !.emit = "noop"]
      [] out \in {"sendfail", "sent"} -> [r EXCEPT !.pc = "set", !.emit = "sent"]

EmitStep(r, out) ==
    CASE out \in {"nochannel", "sendfail"} -> Catch(r)
      [] out = "null" -> [r EXCEPT !.pc = "set", !.emit = "noop"]
      [] out = "sent" -> [r EXCEPT !.pc = "set", !.emit = "sent"]

\* `await sendDiscordNotification(event)` (line 138): the call runs to its
\* return or to the error it raises; it touches no state of the store.
Emit(c) ==
    /\ cyc[c].pc = "emit"
    /\ \E out \in EmitOutcomes :
         /\ cyc' = [cyc EXCEPT ![c] = EmitStep(cyc[c], out)]
         /\ delivered' = IF out = "sent"
                           THEN delivered \cup {<<AppOf(c), cyc[c].gid>>}
                           ELSE delivered
         /\ last' = NoLast
    /\ UNCHANGED <<cfgVars, proc, exitCode, storeVars, envVars, started,
                   lastSet, how, unsaved, fetched, embedVars>>

\* setLastGid(appId, gid) (lines 68-81) on the selected backend.
setLastGid(appId, gid) ==
    /\ redis' = IF redisClient THEN [redis EXCEPT ![appId] = gid] ELSE redis
    /\ file' = IF redisClient THEN file ELSE FileSet(file, appId, gid)

\* `await setLastGid(appId, event.gid)` rejected (line 139): nothing in
\* setLastGid catches a Redis or writeFileSync error, so the await raises
\* into the catch of line 142.
SetFailed(r) == Catch(r)

\* `await setLastGid(appId, event.gid)` (line 139).  A Redis command can be
\* rejected and writeFileSync can throw; the store is then left as it was.
Set(c) ==
    /\ cyc[c].pc = "set"
    /\ \E ok \in BOOLEAN :
         LET appId == AppOf(c)
             gid == cyc[c].gid
             written == [cyc[c] EXCEPT !.wrote = @ \cup {appId}]
         IN  /\ cyc' = [cyc EXCEPT ![c] = IF ok THEN NextItem(written)
                                                ELSE SetFailed(cyc[c])]
             /\ IF ok THEN setLastGid(appId, gid) ELSE UNCHANGED storeVars
             /\ lastSet' = IF ok THEN [lastSet EXCEPT ![appId] = gid] ELSE lastSet
             /\ how' = IF ok THEN [how EXCEPT ![appId] = cyc[c].emit] ELSE how
             /\ unsaved' = IF ok THEN unsaved
                           ELSE [unsaved EXCEPT ![appId] = gid]
             /\ last' = [NoLast EXCEPT !.storeErr = ~ok]
    /\ UNCHANGED <<cfgVars, proc, exitCode, envVars, started, delivered, fetched,
                   embedVars>>

\* ------------------------------------------------------------------ Next
Next ==
    \/ Startup
    \/ Ready
    \/ Tick
    \/ Publish
    \/ \E c \in Slots : Fetch(c)
    \/ \E c \in Slots : Get(c)
    \/ \E c \in Slots : Emit(c)
    \/ \E c \in Slots : Set(c)

Spec == Init /\ [][Next]_vars

\* Every await of a running cycle settles in the end: the promise resolves
\* or rejects, and the cycle takes its next step.
CycleStep(c) == Fetch(c) \/ Get(c) \/ Emit(c) \/ Set(c)

FairSpec == Spec /\ \A c \in Slots : WF_vars(CycleStep(c))

\* ------------------------------------------------------- endless polling
\* Mutant of Interval: the timer fires once and is then cleared.
Interval_Once ==
    /\ proc = "ready"
    /\ started < 2
    /\ FreeSlots # {}
    /\ cyc' = [cyc EXCEPT ![LowestFree] = StartCycle]
    /\ started' = started + 1
    /\ fetched' = (fetched \/ Len(APP_IDS) > 0)
    /\ last' = NoLast
    /\ UNCHANGED <<cfgVars, proc, exitCode, storeVars, envVars, histVars, embedVars>>

\* Line 196 with the timer never cleared: setInterval fires for as long as
\* the process runs.  The count of started cycles stops at MaxCycles.
Interval ==
    /\ proc = "ready"
    /\ FreeSlots # {}
    /\ cyc' = [cyc EXCEPT ![LowestFree] = StartCycle]
    /\ started' = IF started < MaxCycles THEN started + 1 ELSE started
    /\ fetched' = (fetched \/ Len(APP_IDS) > 0)
    /\ last' = NoLast
    /\ UNCHANGED <<cfgVars, proc, exitCode, storeVars, envVars, histVars, embedVars>>

\* A process with credential and channel id configured that tracks one
\* appId.
LiveLists == {<<"a">>}

LiveInit ==
    /\ PollStart(LiveLists)
    /\ EmbedIdle
    /\ TOKEN = "tok"
    /\ CHANNEL_ID = "chan"

LiveNext ==
    \/ Startup
    \/ Ready
    \/ Interval
    \/ Publish
    \/ \E c \in Slots : Fetch(c)
    \/ \E c \in Slots : Get(c)
    \/ \E c \in Slots : Emit(c)
    \/ \E c \in Slots : Set(c)

\* A step in which an operation of a cycle does not succeed: it raises into
\* the catch, the feed answers without the latest event, or the channel
\* resolves to nothing and no message is sent.
StepFails ==
    \/ \E c \in Slots : cyc'[c] # cyc[c] /\ cyc'[c].caught
    \/ last'.nodata
    \/ \E c \in Slots : cyc[c].pc = "emit" /\ cyc'[c].emit = "noop"

\* The process starts, the timer keeps firing, every await settles, and
\* from some point on fetch, read, emit and write succeed.
LiveSpec ==
    /\ LiveInit
    /\ [][LiveNext]_vars
    /\ WF_vars(Startup)
    /\ WF_vars(Ready)
    /\ WF_vars(Interval)
    /\ \A c \in Slots : WF_vars(CycleStep(c))
    /\ <>[][~StepFails]_vars

\* -------------------------------------------------------- serial polling
\* An interval firing that finds no cycle running: every cycle ends within
\* the interval.
SerialTick == FreeSlots = Slots /\ Tick

\* The store answers every call: no read and no write is rejected.
SerialGet(c) == Get(c) /\ ~last'.storeErr
SerialSet(c) == Set(c) /\ ~last'.storeErr

SerialNext ==
    \/ Startup
    \/ Ready
    \/ SerialTick
    \/ Publish
    \/ \E c \in Slots : Fetch(c)
    \/ \E c \in Slots : SerialGet(c)
    \/ \E c \in Slots : Emit(c)
    \/ \E c \in Slots : SerialSet(c)

\* The executions without overlapping cycles and without a failed call of
\* the store.
SerialSpec == Init /\ [][SerialNext]_vars

\* ------------------------------------------------------ markup transcoder
\* A text is a sequence of characters (one-character strings).  BULLET
\* stands for the one character U+2022.
BULLET == "<bullet>"
\* The grave accent of a code fence, likewise one character.
BACKTICK == "<backtick>"

\* The length above which formatSteamText truncates (line 119).
TruncateAt == 3500

\* The suffix appended to a truncated text (line 120).
ReadMore == <<".", ".", ".", "\n", "\n", "[", "R", "e", "a", "d", " ", "f", "u", "l", "l", " ", "p", "a", "t", "c", "h", " ", "n", "o", "t", "e", "s", " ", "o", "n", " ", "S", "t", "e", "a", "m", "]">>

\* What String.prototype.trim removes (the members that occur here).
IsSpace(ch) == ch \in {" ", "\n", "\t", "\r"}

\* Letter case folding for the patterns with the `i` flag.
Lower(ch) ==
    CASE ch = "L" -> "l" [] ch = "I" -> "i" [] ch = "S" -> "s"
      [] ch = "T" -> "t" [] ch = "P" -> "p" [] OTHER -> ch

\* The literal pat matches txt at position i (ignoring case when ci; pat
\* is then in lower case).
MatchAt(txt, i, pat, ci) ==
    /\ i >= 1
    /\ i + Len(pat) - 1 <= Len(txt)
    /\ \A n \in 1..Len(pat) :
          (IF ci THEN Lower(txt[i + n - 1]) ELSE txt[i + n - 1]) = pat[n]

\* The leftmost position >= i at which pat matches, 0 when there is none.
FindFrom(txt, i, pat, ci) ==
    LET hi == Len(txt) - Len(pat) + 1
    IN  IF \E j \in i..hi : MatchAt(txt, j, pat, ci)
          THEN CHOOSE j \in i..hi :
                  /\ MatchAt(txt, j, pat, ci)
                  /\ \A k \in i..(j - 1) : ~MatchAt(txt, k, pat, ci)
          ELSE 0

\* txt.replace(/open(.*?)close/gs, pre $1 post) from position i on: the
\* leftmost open, the nearest close after it (lazy, `.` matches newlines),
\* then on from behind the match.  keep = FALSE drops the capture.
RECURSIVE ReplacePairFrom(_, _, _, _, _, _, _)
ReplacePairFrom(txt, i, open, close, pre, post, keep) ==
    LET j == FindFrom(txt, i, open, FALSE)
        k == IF j = 0 THEN 0 ELSE FindFrom(txt, j + Len(open), close, FALSE)
    IN  IF k = 0
          THEN SubSeq(txt, i, Len(txt))
          ELSE SubSeq(txt, i, j - 1) \o pre
                 \o (IF keep THEN SubSeq(txt, j + Len(open), k - 1) ELSE <<>>)
                 \o post
                 \o ReplacePairFrom(txt, k + Len(close), open, close, pre, post, keep)

ReplacePair(txt, open, close, pre, post, keep) ==
    IF Len(txt) = 0 THEN txt
    ELSE ReplacePairFrom(txt, 1, open, close, pre, post, keep)

\* txt.replace(/pat/g, rep) from position i on.
RECURSIVE ReplaceAllFrom(_, _, _, _, _)
ReplaceAllFrom(txt, i, pat, rep, ci) ==
    LET j == FindFrom(txt, i, pat, ci)
    IN  IF j = 0
          THEN SubSeq(txt, i, Len(txt))
          ELSE SubSeq(txt, i, j - 1) \o rep
                 \o ReplaceAllFrom(txt, j + Len(pat), pat, rep, ci)

ReplaceAll(txt, pat, rep, ci) ==
    IF Len(txt) = 0 THEN txt ELSE ReplaceAllFrom(txt, 1, pat, rep, ci)

\* Line 95: /\[url=["']?(.*?)["']?\](.*?)\[\/url\]/gs -> "[$2]($1)".  An
\* opening quote is consumed when there is one; $1 runs to the first `]`,
\* less a quote right before it; $2 runs to the nearest [/url].
Quotes == {"\"", "'"}

RECURSIVE ReplaceUrlFrom(_, _)
ReplaceUrlFrom(txt, i) ==
    LET j == FindFrom(txt, i, <<"[", "u", "r", "l", "=">>, FALSE)
        after == j + 5
        from == IF after <= Len(txt) /\ txt[after] \in Quotes THEN after + 1 ELSE after
        b == IF j = 0 THEN 0 ELSE FindFrom(txt, from, <<"]">>, FALSE)
        to == IF b - 1 >= from /\ txt[b - 1] \in Quotes THEN b - 2 ELSE b - 1
        k == IF b = 0 THEN 0 ELSE FindFrom(txt, b + 1, <<"[", "/", "u", "r", "l", "]">>, FALSE)
    IN  IF k = 0
          THEN SubSeq(txt, i, Len(txt))
          ELSE SubSeq(txt, i, j - 1) \o <<"[">> \o SubSeq(txt, b + 1, k - 1)
                 \o <<"]", "(">> \o SubSeq(txt, from, to) \o <<")">>
                 \o ReplaceUrlFrom(txt, k + 6)

ReplaceUrl(txt) == IF Len(txt) = 0 THEN txt ELSE ReplaceUrlFrom(txt, 1)

\* Lines 86-114: the tag rewrites, in the order of the source.
Rewrites(txt) ==
    LET
        \* line 86: /\[h1\](.*?)\[\/h1\]/gs -> "# $1\n"
        s01 == ReplacePair(txt, <<"[", "h", "1", "]">>, <<"[", "/", "h", "1", "]">>,
                              <<"#", " ">>, <<"\n">>, TRUE)
        \* line 87
        s02 == ReplacePair(s01, <<"[", "h", "2", "]">>, <<"[", "/", "h", "2", "]">>,
                              <<"#", "#", " ">>, <<"\n">>, TRUE)
        \* line 88
        s03 == ReplacePair(s02, <<"[", "h", "3", "]">>, <<"[", "/", "h", "3", "]">>,
                              <<"#", "#", "#", " ">>, <<"\n">>, TRUE)
        \* line 90
        s04 == ReplacePair(s03, <<"[", "b", "]">>, <<"[", "/", "b", "]">>,
                              <<"*", "*">>, <<"*", "*">>, TRUE)
        \* line 91
        s05 == ReplacePair(s04, <<"[", "i", "]">>, <<"[", "/", "i", "]">>,
                              <<"*">>, <<"*">>, TRUE)
        \* line 92
        s06 == ReplacePair(s05, <<"[", "u", "]">>, <<"[", "/", "u", "]">>,
                              <<"_", "_">>, <<"_", "_">>, TRUE)
        \* line 93
        s07 == ReplacePair(s06, <<"[", "s", "t", "r", "i", "k", "e", "]">>, <<"[", "/", "s", "t", "r", "i", "k", "e", "]">>,
                              <<"~", "~">>, <<"~", "~">>, TRUE)
        \* line 95
        s08 == ReplaceUrl(s07)
        \* line 97 (case-insensitive)
        s09 == ReplaceAll(s08, <<"[", "l", "i", "s", "t", "]">>, <<>>, TRUE)
        \* line 98 (case-insensitive)
        s10 == ReplaceAll(s09, <<"[", "/", "l", "i", "s", "t", "]">>, <<>>, TRUE)
        \* line 99
        s11 == ReplaceAll(s10, <<"[", "*", "]">>, <<BULLET, " ">>, FALSE)
        \* line 100
        s12 == ReplaceAll(s11, <<"[", "/", "*", "]">>, <<>>, FALSE)
        \* line 101
        s13 == ReplaceAll(s12, <<"[", "/", "]">>, <<>>, FALSE)
        \* line 103
        s14 == ReplacePair(s13, <<"[", "s", "p", "o", "i", "l", "e", "r", "]">>, <<"[", "/", "s", "p", "o", "i", "l", "e", "r", "]">>,
                              <<"|", "|">>, <<"|", "|">>, TRUE)
        \* line 105
        s15 == ReplacePair(s14, <<"[", "c", "o", "d", "e", "]">>, <<"[", "/", "c", "o", "d", "e", "]">>,
                              <<BACKTICK, BACKTICK, BACKTICK, "\n">>, <<"\n", BACKTICK, BACKTICK, BACKTICK>>, TRUE)
        \* line 107
        s16 == ReplacePair(s15, <<"[", "q", "u", "o", "t", "e", "]">>, <<"[", "/", "q", "u", "o", "t", "e", "]">>,
                              <<">", " ">>, <<"\n">>, TRUE)
        \* line 109: the image is dropped
        s17 == ReplacePair(s16, <<"[", "i", "m", "g", "]">>, <<"[", "/", "i", "m", "g", "]">>,
                              <<>>, <<>>, FALSE)
        \* line 111 (case-insensitive)
        s18 == ReplaceAll(s17, <<"[", "/", "p", "]">>, <<"\n">>, TRUE)
        \* line 112 (case-insensitive)
        s19 == ReplaceAll(s18, <<"[", "p", "]">>, <<>>, TRUE)
        \* line 114
        s20 == ReplacePair(s19, <<"[", "p", "r", "e", "v", "i", "e", "w", "y", "o", "u", "t", "u", "b", "e", "=">>, <<"]", "[", "/", "p", "r", "e", "v", "i", "e", "w", "y", "o", "u", "t", "u", "b", "e", "]">>,
                              <<>>, <<>>, FALSE)
        \* evaluated one after the other; the last one is the result
        stages == <<s01, s02, s03, s04, s05, s06, s07, s08, s09, s10,
                    s11, s12, s13, s14, s15, s16, s17, s18, s19, s20>>
    IN  stages[20]

\* Mutant of CollapseNewlines: every run of three or more newlines loses
\* one newline only.
RECURSIVE CollapseNewlines_DropsOne(_, _)
CollapseNewlines_DropsOne(txt, i) ==
    LET j == FindFrom(txt, i, <<"\n", "\n", "\n">>, FALSE)
    IN  IF j = 0
          THEN SubSeq(txt, i, Len(txt))
          ELSE SubSeq(txt, i, j + 1) \o CollapseNewlines_DropsOne(txt, j + 3)

\* Line 116: txt.replace(/\n{3,}/g, "\n\n") from position i on: the
\* leftmost run of three newlines, extended as far as it goes (greedy).
RECURSIVE CollapseNewlines(_, _)
CollapseNewlines(txt, i) ==
    LET j == FindFrom(txt, i, <<"\n", "\n", "\n">>, FALSE)
        e == CHOOSE m \in (j + 2)..Len(txt) :
                /\ \A k \in j..m : txt[k] = "\n"
                /\ (m = Len(txt) \/ txt[m + 1] # "\n")
    IN  IF j = 0
          THEN SubSeq(txt, i, Len(txt))
          ELSE SubSeq(txt, i, j - 1) \o <<"\n", "\n">> \o CollapseNewlines(txt, e + 1)

\* Mutant of Trim: only leading whitespace is removed.
Trim_StartOnly(txt) ==
    IF \A i \in 1..Len(txt) : IsSpace(txt[i])
      THEN <<>>
      ELSE LET first == CHOOSE i \in 1..Len(txt) :
                           ~IsSpace(txt[i]) /\ \A k \in 1..(i - 1) : IsSpace(txt[k])
           IN  SubSeq(txt, first, Len(txt))

\* Line 117: txt.trim().
Trim(txt) ==
    IF \A i \in 1..Len(txt) : IsSpace(txt[i])
      THEN <<>>
      ELSE LET first == CHOOSE i \in 1..Len(txt) :
                           ~IsSpace(txt[i]) /\ \A k \in 1..(i - 1) : IsSpace(txt[k])
               stop == CHOOSE i \in 1..Len(txt) :
                          ~IsSpace(txt[i]) /\ \A k \in (i + 1)..Len(txt) : IsSpace(txt[k])
           IN  SubSeq(txt, first, stop)

\* Lines 84-117: the value of `formatted` before the length test.
Pipeline(txt) == Trim(CollapseNewlines(Rewrites(txt), 1))

\* Mutant of Truncate: a text of exactly TruncateAt characters is cut too.
Truncate_AtLimit(txt) ==
    IF Len(txt) >= TruncateAt
      THEN SubSeq(txt, 1, TruncateAt) \o ReadMore
      ELSE txt

\* Lines 119-121.
Truncate(txt) ==
    IF Len(txt) > TruncateAt
      THEN SubSeq(txt, 1, TruncateAt) \o ReadMore
      ELSE txt

\* Lines 83-124.
formatSteamText(txt) == Truncate(Pipeline(txt))

\* The texts formatSteamText is applied to (announcement_body.body).
\* Pieces a short text is put together from.
MaxPieces == 4
\* Characters of the plain text between a heading pair.
MaxPlain == 4

Digit(n) == CASE n = 1 -> "1" [] n = 2 -> "2" [] n = 3 -> "3"

\* [hN] T [/hN]
Heading(n, plain) ==
    <<"[", "h", Digit(n), "]">> \o plain \o <<"[", "/", "h", Digit(n), "]">>

PlainTexts == UNION {[1..n -> {"a", " ", "\n"}] : n \in 0..MaxPlain}

HeadingTexts == {Heading(n, plain) : n \in 1..3, plain \in PlainTexts}

Lexicon ==
    {<<"a">>, <<" ">>, <<"\n">>, <<"\n", "\n">>,
     <<"[", "h", "1", "]">>, <<"[", "/", "h", "1", "]">>, <<"[", "L", "I", "S", "T", "]">>,
     <<"[", "/", "p", "]">>, <<"[", "c", "o", "d", "e", "]">>, <<"[", "/", "c", "o", "d", "e", "]">>}

RECURSIVE Flatten(_)
Flatten(pieces) ==
    IF pieces = <<>> THEN <<>> ELSE Head(pieces) \o Flatten(Tail(pieces))

ShortTexts ==
    {Flatten(pieces) : pieces \in UNION {[1..n -> Lexicon] : n \in 0..MaxPieces}}

\* Texts around the truncation length: a run of `a`, with something before
\* and behind it.
Repeat(ch, n) == [i \in 1..n |-> ch]

LongTexts ==
    {before \o Repeat("a", n) \o behind :
        before \in {<<>>, <<" ">>, <<"[", "h", "1", "]">>},
        behind \in {<<>>, <<"[", "/", "h", "1", "]">>, <<"\n", "\n", "\n", "a">>, <<"[", "b", "]", "a", "[", "/", "b", "]">>},
        n \in {TruncateAt - 2, TruncateAt - 1, TruncateAt, TruncateAt + 1,
               TruncateAt + 500}}

Texts == ShortTexts \cup HeadingTexts \cup LongTexts

\* ------------------------------------------------------- image resolution
\* Longest image list of a jsondata document.
MaxImages == 2

\* event.announcement_body.clanid: not a property, the empty string, or an id.
ClanIds == {UNDEFINED, "", "c1"}

\* The value of localized_title_image / localized_capsule_image in the
\* parsed jsondata: not a property, a value that is no array, or an array
\* whose elements are null, "" or a file name.
ImageArrays(fileName) ==
    UNION {[1..n -> {NULL, "", fileName}] : n \in 0..MaxImages}

ImageLists(fileName) ==
    {NoList, [kind |-> "string", items |-> <<>>]}
      \cup {[kind |-> "array", items |-> a] : a \in ImageArrays(fileName)}

\* event.jsondata by what JSON.parse makes of it: not a property, the empty
\* string, a text JSON.parse throws on, the text `null`, a number, or an
\* object with the two image properties.
JsonDatas ==
    {[kind |-> k, title |-> NoList, capsule |-> NoList] :
        k \in {"undefined", "empty", "invalid", "null", "number"}}
      \cup [kind : {"object"}, title : ImageLists("t.png"),
            capsule : ImageLists("c.png")]

\* The events the embed is built for: announcement_body is a required
\* property of SteamEvent, the feed may still leave it out.
Events ==
    [hasBody : {TRUE}, clanid : ClanIds, jsondata : JsonDatas]
      \cup [hasBody : {FALSE}, clanid : {UNDEFINED}, jsondata : JsonDatas]

\* JavaScript truthiness of a string, null or undefined.
Truthy(v) == v \notin {NULL, UNDEFINED, ""}

\* `Array.isArray(x) && x[0]` (lines 165-166): falsy unless x is an array
\* with a truthy first element.
FirstImage(list) ==
    IF list.kind = "array" /\ Len(list.items) > 0 THEN list.items[1] ELSE UNDEFINED

\* Mutant of imageFile: the capsule image is tried first.
imageFile_CapsuleFirst(jsonData) ==
    IF Truthy(FirstImage(jsonData.capsule)) THEN FirstImage(jsonData.capsule)
    ELSE FirstImage(jsonData.title)

\* Lines 164-166: the title image first, then the capsule image.
imageFile(jsonData) ==
    IF Truthy(FirstImage(jsonData.title)) THEN FirstImage(jsonData.title)
    ELSE FirstImage(jsonData.capsule)

\* Lines 154-174 for one event.  Reading clanid of a missing
\* announcement_body (line 155) is outside the try and raises; inside the
\* try, JSON.parse throwing (invalid text) and reading a property of null
\* both end in the empty catch with imageUrl still null.
resolveImage(ev) ==
    IF ~ev.hasBody
      THEN [done |-> TRUE, raised |-> TRUE, clanId |-> NULL, imageFile |-> NULL]
      ELSE IF ev.jsondata.kind \in {"undefined", "empty"}
             THEN [NoImage EXCEPT !.done = TRUE]
           ELSE IF ~Truthy(ev.clanid) THEN [NoImage EXCEPT !.done = TRUE]
           ELSE IF ev.jsondata.kind \in {"invalid", "null"}
             THEN [NoImage EXCEPT !.done = TRUE]
           ELSE IF Truthy(imageFile(ev.jsondata))
             THEN [done |-> TRUE, raised |-> FALSE, clanId |-> ev.clanid,
                   imageFile |-> imageFile(ev.jsondata)]
           ELSE [NoImage EXCEPT !.done = TRUE]

\* Lines 154-188 of sendDiscordNotification for the event at hand: the
\* image is resolved and the description is formatSteamText of the body;
\* an event without announcement_body raises at line 155, before either.
BuildEmbed ==
    /\ ~imageUrl.done
    /\ imageUrl' = resolveImage(event)
    /\ formatted' = IF event.hasBody
                      THEN [done |-> TRUE, value |-> formatSteamText(text)]
                      ELSE formatted
    /\ UNCHANGED <<pollVars, event, text>>

\* The poll loop at rest while one embed is looked at.
PollAtRest ==
    /\ PollInit
    /\ TOKEN = "tok" /\ CHANNEL_ID = "chan" /\ APP_IDS = <<"a", "b">>
    /\ ~redisClient /\ ~file.exists

\* Every event, with one body.
ImageInit ==
    /\ PollAtRest
    /\ event \in Events
    /\ imageUrl = NoImage
    /\ text = <<"[", "b", "]", "a", "[", "/", "b", "]">>
    /\ formatted = NoText

ImageSpec == ImageInit /\ [][BuildEmbed]_vars

\* Every body, with one event.
FormatInit ==
    /\ PollAtRest
    /\ event = [NoEvent EXCEPT !.clanid = "c1"]
    /\ imageUrl = NoImage
    /\ text \in Texts
    /\ formatted = NoText

FormatSpec == FormatInit /\ [][BuildEmbed]_vars

\* ============================================================ properties
\* Cycle c takes the step that leaves program counter pc.
StepOf(c, pc) == cyc[c].pc = pc /\ cyc'[c] # cyc[c]

\* In the state reached, cycle c has called sendDiscordNotification in its
\* current pass (the call is in flight, or has returned).
EmitInvoked(c) == cyc[c].pc = "emit" \/ (cyc[c].pc = "set" /\ cyc[c].emit # "none")

\* Cycle c has left the pass it was in: it is at the next appId or done.
PassEnded(c) ==
    IF cyc[c].idx < Len(APP_IDS)
      THEN cyc'[c].pc = "fetch" /\ cyc'[c].idx = cyc[c].idx + 1
      ELSE cyc'[c].pc = "idle"

\* C1: in a pass whose fetch yielded the latest gid f and whose read of the
\* stored value s returned, a notification is emitted iff f # s (absent
\* counts as different); when emit and store succeed the stored value is f
\* afterwards; when f = s nothing is emitted and the store is unchanged.
C1_NotifyIffDiffers ==
    [][\A c \in Slots :
         /\ (StepOf(c, "get") /\ ~cyc'[c].caught) =>
              /\ EmitInvoked(c)' <=> (cyc[c].gid # Stored(AppOf(c)))
              /\ (cyc[c].gid = Stored(AppOf(c))) =>
                   (UNCHANGED storeVars /\ PassEnded(c))
         /\ (StepOf(c, "set") /\ ~cyc'[c].caught) =>
              \A k \in Keys : k = AppOf(c) => Stored(k)' = cyc[c].gid]_vars

\* The same with s read as the value getLastGid returns to the change
\* detector: this holds, which confines the divergence found for C1 to what
\* the local-file getLastGid returns for a stored empty gid.
C1_NotifyIffDiffersFromRead ==
    [][\A c \in Slots :
         /\ (StepOf(c, "get") /\ ~cyc'[c].caught) =>
              /\ EmitInvoked(c)' <=> (cyc[c].gid # getLastGid(AppOf(c)))
              /\ (cyc[c].gid = getLastGid(AppOf(c))) =>
                   (UNCHANGED storeVars /\ PassEnded(c))
         /\ (StepOf(c, "set") /\ ~cyc'[c].caught) =>
              \A k \in Keys : k = AppOf(c) => Stored(k)' = cyc[c].gid]_vars

C3_FailureIsolated ==
    /\ \A c \in Slots : (cyc[c].pc # "idle") ~> (cyc[c].pc = "idle")
    /\ [][\A c \in Slots :
           /\ (cyc'[c] # cyc[c] /\ cyc[c].pc # "idle" /\ cyc'[c].caught) =>
                 PassEnded(c)
           /\ (cyc[c].pc # "idle" /\ cyc'[c].pc = "idle") =>
                 cyc[c].idx = Len(APP_IDS)
           /\ (cyc[c].pc # "idle" /\ cyc'[c].pc # "idle") =>
                 cyc'[c].idx \in {cyc[c].idx, cyc[c].idx + 1}]_vars

\* C3 witness: a cycle whose first appId failed has notified and is
\* persisting its second one.
C3_Witness ==
    \E c \in Slots :
       /\ cyc[c].failed = {1}
       /\ cyc[c].idx = 2
       /\ cyc[c].pc = "set"
       /\ cyc[c].emit = "sent"

\* C4 as claimed: whenever the store holds gid X for an app, a notification
\* for X of that app was handed to the transport before.
C4_StoredWasDelivered ==
    \A k \in Keys : Stored(k) # NULL => <<k, Stored(k)>> \in delivered

\* C4 amended: whenever the store holds gid X for an app, a call of
\* sendDiscordNotification for X of that app has returned without raising
\* before; X was handed to the transport unless that call returned silently
\* (no CHANNEL_ID, or the channel resolved to nothing), and with no
\* CHANNEL_ID nothing is ever handed to the transport.
C4_StoredWasEmitted ==
    /\ \A k \in Keys :
          Stored(k) # NULL =>
             /\ how[k] \in {"sent", "noop"}
             /\ how[k] = "sent" => <<k, Stored(k)>> \in delivered
             /\ CHANNEL_ID = "" => how[k] = "noop"
    /\ CHANNEL_ID = "" => delivered = {}

\* C4 witness: a gid is stored that was never handed to the transport.
C4_Witness ==
    \E k \in Keys :
       /\ Stored(k) \in Gids
       /\ how[k] = "noop"
       /\ <<k, Stored(k)>> \notin delivered

\* C5: after a completed setLastGid(k, v), getLastGid(k) returns v until k
\* is set again, on both backends.
C5_SetThenGet ==
    \A k \in Keys : lastSet[k] # NONE => getLastGid(k) = lastSet[k]

\* C6 as claimed: a failed call of the storage backend does not raise into
\* the catch of checkUpdates, and a failed read counts as absent, so that
\* the fetched entry is notified.
C6_StoreFailureDegrades ==
    [][\A c \in Slots :
         /\ (StepOf(c, "get") /\ last'.storeErr) =>
               (~cyc'[c].caught /\ EmitInvoked(c)')
         /\ (StepOf(c, "set") /\ last'.storeErr) => ~cyc'[c].caught]_vars

\* C6 amended: a failed call of the storage backend raises out of
\* getLastGid or setLastGid into the catch of that appId: a failed read ends
\* the pass with no notification, a failed write ends it with nothing
\* persisted; the store is unchanged and the cycle goes on.
C6_StoreFailureCaught ==
    [][\A c \in Slots :
         ((StepOf(c, "get") \/ StepOf(c, "set")) /\ last'.storeErr) =>
            /\ cyc'[c].caught
            /\ ~EmitInvoked(c)'
            /\ PassEnded(c)
            /\ UNCHANGED <<storeVars, delivered>>]_vars

\* C6 witness: a rejected Redis read has just ended the pass of the first
\* appId in the catch.
C6_Witness ==
    /\ last.storeErr
    /\ redisClient
    /\ \E c \in Slots :
          /\ cyc[c].caught
          /\ cyc[c].pc = "fetch"
          /\ cyc[c].idx = 2
          /\ \A k \in Keys : Stored(k) = NULL /\ unsaved[k] = NULL

\* C7: when the notification for X went out and setLastGid then fails, the
\* stored value stays what it was, and a later pass that fetches X again
\* while the store still holds another value notifies X a second time.
C7_DuplicateAfterSetFailure ==
    [][\A c \in Slots :
         /\ (StepOf(c, "set") /\ last'.storeErr) =>
               (UNCHANGED storeVars /\ cyc'[c].caught)
         /\ (StepOf(c, "get") /\ ~cyc'[c].caught
               /\ unsaved[AppOf(c)] = cyc[c].gid
               /\ Stored(AppOf(c)) # cyc[c].gid) => EmitInvoked(c)']_vars

\* C7 witness: the second cycle is notifying, for its first appId, the gid
\* that the first cycle delivered and then failed to store.
C7_Witness ==
    /\ APP_IDS = <<"a", "b">>
    /\ started = 2
    /\ \E c \in Slots :
          /\ cyc[c].pc = "emit"
          /\ cyc[c].idx = 1
          /\ unsaved["a"] = cyc[c].gid
          /\ <<"a", cyc[c].gid>> \in delivered
          /\ Stored("a") # cyc[c].gid
          /\ \A d \in Slots \ {c} : cyc[d].pc = "idle"

\* C8: a feed response with success # 1 or without any event ends the pass
\* with no notification, no read or write of the store and no error.
C8_NoDataIsQuiet ==
    [][\A c \in Slots :
         (StepOf(c, "fetch") /\ last'.nodata) =>
            /\ ~cyc'[c].caught
            /\ PassEnded(c)
            /\ UNCHANGED <<storeVars, delivered>>]_vars

\* C9: for a key that no setLastGid has completed for, getLastGid returns
\* null on both backends, also with storage.json missing or unparsable.
C9_NeverSetIsAbsent ==
    /\ \A k \in Keys : lastSet[k] = NONE => getLastGid(k) = NULL
    /\ \A c \in Slots :
          (cyc[c].pc \in {"emit", "set"} /\ lastSet[AppOf(c)] = NONE) =>
             cyc[c].lastGid = NULL

\* C9 witness: with an unparsable storage.json, a pass has read a key that
\* was never set and is notifying.
C9_Witness ==
    /\ ~redisClient
    /\ file.exists /\ ~file.parsable
    /\ \E c \in Slots :
          /\ cyc[c].pc = "emit"
          /\ lastSet[AppOf(c)] = NONE
          /\ cyc[c].lastGid = NULL

\* C10: without a token the process exits with status 1 and checkUpdates
\* never runs: no cycle, no fetch, no notification, no store write.
C10_NoTokenNoCycle ==
    TOKEN = "" =>
       /\ proc \in {"init", "exited"}
       /\ proc = "exited" => exitCode = 1
       /\ started = 0
       /\ ~fetched
       /\ \A c \in Slots : cyc[c].pc = "idle"
       /\ delivered = {}
       /\ \A k \in Keys : Stored(k) = NULL /\ lastSet[k] = NONE

\* C10 witness: the process has exited for want of a token.
C10_Witness == TOKEN = "" /\ proc = "exited" /\ exitCode = 1

\* C11: an image is attached iff clanid and jsondata are present, jsondata
\* parses and the title-image or the capsule-image list yields a first
\* element; the title list's first element is used when it yields one,
\* else the capsule list's; a missing clanid or jsondata and an unparsable
\* jsondata give no image and raise nothing.
C11_ImageResolution ==
    imageUrl.done =>
      LET j == event.jsondata
          parses == j.kind \notin {"undefined", "empty", "invalid"}
          hasTitle == /\ j.title.kind = "array"
                      /\ Len(j.title.items) >= 1
                      /\ j.title.items[1] \notin {NULL, ""}
          hasCapsule == /\ j.capsule.kind = "array"
                        /\ Len(j.capsule.items) >= 1
                        /\ j.capsule.items[1] \notin {NULL, ""}
          attach == /\ event.hasBody
                    /\ event.clanid \notin {UNDEFINED, ""}
                    /\ parses
                    /\ (hasTitle \/ hasCapsule)
      IN  /\ (imageUrl.imageFile # NULL) <=> attach
          /\ (attach /\ hasTitle) =>
                (imageUrl.imageFile = j.title.items[1] /\ imageUrl.clanId = event.clanid)
          /\ (attach /\ ~hasTitle) =>
                (imageUrl.imageFile = j.capsule.items[1] /\ imageUrl.clanId = event.clanid)
          /\ event.hasBody => ~imageUrl.raised

\* C11 witness: both lists are arrays, the title list's first element is
\* null, and the capsule image was attached.
C11_Witness ==
    /\ imageUrl.done
    /\ imageUrl.imageFile = "c.png"
    /\ event.jsondata.title.kind = "array"
    /\ Len(event.jsondata.title.items) = 2

\* Helpers of the claims about formatSteamText.
\* n `#` characters.
Hashes(n) == [i \in 1..n |-> "#"]

\* txt holds no three consecutive newlines.
NoTripleNewline(txt) ==
    \A i \in 1..(Len(txt) - 2) :
       ~(txt[i] = "\n" /\ txt[i + 1] = "\n" /\ txt[i + 2] = "\n")

\* txt without the whitespace at its end, and at both ends.
Blank(ch) == ch \in {" ", "\n"}
HasNonBlank(txt) == \E i \in 1..Len(txt) : ~Blank(txt[i])
FirstNonBlank(txt) ==
    CHOOSE i \in 1..Len(txt) :
       ~Blank(txt[i]) /\ \A j \in 1..(i - 1) : Blank(txt[j])
LastNonBlank(txt) ==
    CHOOSE i \in 1..Len(txt) :
       ~Blank(txt[i]) /\ \A j \in (i + 1)..Len(txt) : Blank(txt[j])
WithoutTrailingBlanks(txt) ==
    IF HasNonBlank(txt) THEN SubSeq(txt, 1, LastNonBlank(txt)) ELSE <<>>
WithoutOuterBlanks(txt) ==
    IF HasNonBlank(txt)
    THEN SubSeq(txt, FirstNonBlank(txt), LastNonBlank(txt))
    ELSE <<>>

\* The maximal runs of newlines of txt, by the position they start at, and
\* how many of them have a length in lens.
RunStarts(txt) ==
    {i \in 1..Len(txt) : txt[i] = "\n" /\ (i = 1 \/ txt[i - 1] # "\n")}
RunLength(txt, i) ==
    (CHOOSE e \in i..Len(txt) :
        /\ \A k \in i..e : txt[k] = "\n"
        /\ (e = Len(txt) \/ txt[e + 1] # "\n")) - i + 1
RunsOfLength(txt, lens) ==
    Cardinality({i \in RunStarts(txt) : RunLength(txt, i) \in lens})

\* txt with every newline dropped that follows two newlines: each run of
\* three or more becomes a run of two.
RECURSIVE AtMostTwoNewlines(_)
AtMostTwoNewlines(txt) ==
    IF NoTripleNewline(txt) THEN txt
    ELSE LET third == CHOOSE i \in 3..Len(txt) :
                         /\ txt[i] = "\n" /\ txt[i - 1] = "\n" /\ txt[i - 2] = "\n"
                         /\ NoTripleNewline(SubSeq(txt, 1, i - 1))
         IN  AtMostTwoNewlines(SubSeq(txt, 1, third - 1)
                               \o SubSeq(txt, third + 1, Len(txt)))

\* The literal a truncated text ends with.
ReadMoreSuffix == <<".", ".", ".", "\n", "\n", "[", "R", "e", "a", "d", " ", "f", "u", "l", "l", " ", "p", "a", "t", "c", "h", " ", "n", "o", "t", "e", "s", " ", "o", "n", " ", "S", "t", "e", "a", "m", "]">>

C13_Truncation ==
    formatted.done =>
      LET R == Pipeline(text)
          out == formatted.value
      IN  /\ Len(R) > 3500 =>
                /\ Len(out) = 3500 + Len(ReadMoreSuffix)
                /\ SubSeq(out, 1, 3500) = SubSeq(R, 1, 3500)
                /\ SubSeq(out, 3501, Len(out)) = ReadMoreSuffix
          /\ Len(R) <= 3500 => out = R
          /\ text = [i \in 1..4000 |-> "a"] =>
                out = [i \in 1..3500 |-> "a"] \o ReadMoreSuffix

\* C13 witness: a text of 3501 characters whose trimmed result has exactly
\* 3500 characters was returned without the suffix.
C13_Witness ==
    /\ formatted.done
    /\ Len(text) = 3501
    /\ Len(formatted.value) = 3500

\* C14 as claimed: the result holds no run of three or more newlines, and
\* of the runs of newlines inside the rewritten text (those not in the
\* whitespace at its ends) the single ones appear as they are and all
\* longer ones as runs of exactly two.
C14_RunsBecomeTwo ==
    formatted.done =>
      LET inner == WithoutOuterBlanks(Rewrites(text))
          out == SubSeq(formatted.value, 1,
                        IF Len(formatted.value) > 3500 THEN 3500
                        ELSE Len(formatted.value))
      IN  /\ NoTripleNewline(formatted.value)
          /\ RunsOfLength(out, {1}) = RunsOfLength(inner, {1})
          /\ RunsOfLength(out, {2}) = RunsOfLength(inner, 2..Len(inner))

\* C14 amended: the result holds no run of three or more newlines; it is
\* the rewritten text with every run of three or more newlines made a run
\* of two and the whitespace at both ends removed, cut after 3500
\* characters when longer (a run at the cut is then cut too, and the runs
\* behind it are gone).
C14_NoTripleNewline ==
    formatted.done =>
      LET expected == WithoutOuterBlanks(AtMostTwoNewlines(Rewrites(text)))
      IN  /\ NoTripleNewline(formatted.value)
          /\ Len(expected) <= 3500 => formatted.value = expected
          /\ Len(expected) > 3500 =>
                SubSeq(formatted.value, 1, 3500) = SubSeq(expected, 1, 3500)

\* C14 witness: a run of three newlines made by [/p] behind two newlines,
\* between two letters, came out as a run of two.
C14_Witness ==
    /\ formatted.done
    /\ text = <<"a", "\n", "\n", "[", "/", "p", "]", "a">>
    /\ formatted.value = <<"a", "\n", "\n", "a">>

\* C15: an interval firing starts a new cycle whether or not another cycle
\* is still running (the timer is never held back by a running cycle), and
\* starting it leaves the running cycle where it is: nothing excludes the
\* two from each other.  The state in which both have read the same stored
\* value, judged the same entry new and emitted for it is C15_Witness.
C15_CyclesOverlap ==
    /\ []((proc = "ready" /\ started < MaxCycles /\ FreeSlots # {}) => ENABLED Tick)
    /\ [][Tick =>
            /\ \A c \in Slots : cyc[c].pc # "idle" => cyc'[c] = cyc[c]
            /\ Len(APP_IDS) > 0 =>
                  \E c \in Slots : cyc[c].pc = "idle" /\ cyc'[c].pc = "fetch"
            /\ UNCHANGED storeVars]_vars

\* C15 witness: two cycles at the same item hold the same fetched gid and
\* the same last-seen value, which is still the stored one (neither has
\* written), and the notification of each has been sent.
C15_Witness ==
    /\ cyc[1].pc = "set" /\ cyc[2].pc = "set"
    /\ cyc[1].idx = cyc[2].idx
    /\ cyc[1].gid = cyc[2].gid
    /\ cyc[1].lastGid = cyc[2].lastGid
    /\ cyc[1].lastGid # cyc[1].gid
    /\ getLastGid(AppOf(1)) = cyc[1].lastGid
    /\ cyc[1].emit = "sent" /\ cyc[2].emit = "sent"
    /\ <<AppOf(1), cyc[1].gid>> \in delivered

\* The place of an operation within the pass over one appId.
Rank(pc) == CASE pc = "fetch" -> 1 [] pc = "get" -> 2 [] pc = "emit" -> 3
              [] pc = "set" -> 4 [] OTHER -> 0

\* C16: within a cycle the appIds are taken one after the other in the
\* configured order.  A step of a cycle either goes on within the pass over
\* the same appId, to a later operation of it (fetch, read, emit, write), or
\* ends that pass and begins the fetch of the next index (or ends the
\* cycle); a pass ends only when its last operation has settled: the write,
\* an operation that raised into the catch, a fetch without new data, or a
\* read that returned the fetched gid.  A cycle is never at two operations.
C16_SequentialItems ==
    [][\A c \in Slots :
         (cyc'[c] # cyc[c] /\ cyc[c].pc # "idle") =>
            \/ /\ cyc'[c].idx = cyc[c].idx
               /\ Rank(cyc'[c].pc) > Rank(cyc[c].pc)
               /\ ~cyc'[c].caught
            \/ /\ PassEnded(c)
               /\ \/ cyc[c].pc = "set"
                  \/ cyc'[c].caught
                  \/ cyc[c].pc = "fetch" /\ last'.nodata
                  \/ cyc[c].pc = "get" /\ cyc[c].gid = getLastGid(AppOf(c))]_vars

\* C16 witness: a cycle has been through fetch, read, emit and write of the
\* first of two different appIds and is now at the second one.
C16_Witness ==
    \E c \in Slots :
       /\ APP_IDS = <<"a", "b">>
       /\ cyc[c].idx = 2 /\ cyc[c].pc = "get"
       /\ cyc[c].failed = {}
       /\ lastSet["a"] \in Gids
       /\ how["a"] = "sent"

\* C17: a cycle completes setLastGid for a key at most once: no write of a
\* cycle is to a key that an earlier pass of the same cycle has written.
C17_OneWritePerCycle ==
    [][\A c \in Slots :
         (StepOf(c, "set") /\ ~cyc'[c].caught) => AppOf(c) \notin cyc[c].wrote]_vars

\* The appIds of the configured list.
Tracked == {APP_IDS[i] : i \in DOMAIN APP_IDS}

\* C18 as claimed: once the feed's latest gid of a tracked appId stays X
\* while the stored value differs from X, a notification for X is sent and
\* X is stored in the end (from a state where the latest gid is X and the
\* stored value is not, that happens unless the latest gid changes); and a
\* step of a cycle that raises leaves the store as it was, so that the
\* appId stays eligible for the next cycle.
C18_EventuallyNotified ==
    /\ \A k \in Keys : \A X \in Gids :
          ((k \in Tracked /\ feed[k] = X /\ Stored(k) # X)
              ~> \/ Stored(k) = X /\ <<k, X>> \in delivered
                 \/ feed[k] # X)
    /\ [][\A c \in Slots :
            (cyc'[c] # cyc[c] /\ cyc'[c].caught) => UNCHANGED storeVars]_vars

\* C18 amended: once the feed's latest gid of a tracked appId stays X while
\* the stored value differs from X, X is stored in the end, and a
\* notification for X has then been sent unless the emit of the pass that
\* stored X returned silently; a step of a cycle that raises leaves the
\* store as it was.
C18_EventuallyStored ==
    /\ \A k \in Keys : \A X \in Gids :
          ((k \in Tracked /\ feed[k] = X /\ Stored(k) # X)
              ~> \/ Stored(k) = X /\ (<<k, X>> \in delivered \/ how[k] = "noop")
                 \/ feed[k] # X)
    /\ [][\A c \in Slots :
            (cyc'[c] # cyc[c] /\ cyc'[c].caught) => UNCHANGED storeVars]_vars

\* C18 witness: the write of a gid failed in one cycle, and a later cycle
\* sent the notification again and stored the gid.
C18_Witness ==
    \E k \in Keys :
       /\ unsaved[k] = feed[k]
       /\ Stored(k) = feed[k]
       /\ how[k] = "sent"
       /\ <<k, feed[k]>> \in delivered

\* C19: with cycles that do not overlap and a store that answers every
\* call, no notification is sent for a gid that the last completed write for
\* that appId stored after its notification was sent: an entry that stays
\* the latest is notified once.
C19_NotifiedOnce ==
    [][\A c \in Slots :
         (StepOf(c, "emit") /\ cyc'[c].emit = "sent") =>
            ~(lastSet[AppOf(c)] = cyc[c].gid /\ how[AppOf(c)] = "sent")]_vars

\* The same for every gid but the empty one on the local-file backend,
\* where it holds: the divergence found for C19 is the one of C5.
C19_NotifiedOnceUnlessEmptyOnFile ==
    [][\A c \in Slots :
         (StepOf(c, "emit") /\ cyc'[c].emit = "sent"
            /\ (redisClient \/ cyc[c].gid # "")) =>
            ~(lastSet[AppOf(c)] = cyc[c].gid /\ how[AppOf(c)] = "sent")]_vars

\* C20: on the local-file backend a completed setLastGid(k, v) on a parsable
\* document makes k hold v and leaves every other key as it was; the
\* document changes in no other step, so no set interleaves with another;
\* and no update is lost, also when cycles overlap: the document holds for
\* every key the value of the last completed setLastGid for it.
C20_FileSetFrame ==
    /\ [][~redisClient =>
            /\ \A c \in Slots :
                 (StepOf(c, "set") /\ ~cyc'[c].caught
                    /\ file.exists /\ file.parsable) =>
                    /\ file'.exists /\ file'.parsable
                    /\ file'.data[AppOf(c)] = cyc[c].gid
                    /\ \A k \in Keys \ {AppOf(c)} : file'.data[k] = file.data[k]
            /\ file' # file =>
                 \E c \in Slots : StepOf(c, "set") /\ ~cyc'[c].caught]_vars
    /\ [](~redisClient =>
            \A k \in Keys : lastSet[k] # NONE =>
               file.exists /\ file.parsable /\ file.data[k] = lastSet[k])

\* C20 witness: the first cycle has stored a gid for "a" and is still
\* running; the second cycle, started meanwhile, has stored one for "b" and
\* ended; the document holds both.
C20_Witness ==
    /\ ~redisClient
    /\ cyc[1].pc # "idle" /\ cyc[1].wrote = {"a"}
    /\ cyc[2].pc = "idle" /\ started = 2
    /\ lastSet["a"] \in Gids /\ lastSet["b"] \in Gids
    /\ file.exists /\ file.parsable
    /\ file.data["a"] = lastSet["a"]
    /\ file.data["b"] = lastSet["b"]

====
